---------------------------- MODULE Spec2Model ----------------------------
(* A model of analysis.py: the resonance cascade Cn, the binary64 bit      *)
(* codec float_to_bin64, the bit comparators common_bit_prefix and         *)
(* hamming_distance, the predictor empirical_stability_law and the two     *)
(* demonstration drivers.                                                  *)
(*                                                                         *)
(* A Python float is an IEEE-754 binary64 value, modelled by its three     *)
(* fields: [sign, exp, frac], where exp is the biased 11-bit exponent and  *)
(* frac is the 52-bit fraction held as four 13-bit limbs, least            *)
(* significant first (an integer of the model checker has 32 bits).        *)
EXTENDS Integers, Sequences, FiniteSets

VARIABLES
    fn, args, ret,          \* the call under way, its arguments, how it ended
    cpc, cz, cn,            \* Cn: where it stands, and its parameters z and n
    primes, product, ci,    \* Cn: its locals primes, product and i
    cret,                   \* Cn: how its last call ended
    dpc, dn, dk,            \* a demo: where it stands, its loop variables
    results, ns, vals,      \* demo_sequence_extension: its lists
    base, perturbed,        \* demo_input_perturbation: its locals
    prefix, hamming, diff,
    trace                   \* the numeric functions evaluated and the reports made, in order

callVars == <<fn, args, ret>>

cnVars == <<cpc, cz, cn, primes, product, ci, cret>>

demoVars == <<dpc, dn, dk, results, ns, vals, base, perturbed, prefix, hamming, diff>>

vars == <<callVars, cnVars, demoVars, trace>>

(* How a call ended: with a value, or with an exception. *)
Returned(v) == [kind |-> "return", val |-> v]

Raised(exc) == [kind |-> "raise", val |-> exc]

NoRet == [kind |-> "none", val |-> 0]

(* ------------------------------------------------------------------ *)
(* Naturals of any size: sequences of limbs, least significant first.  *)

Base == 2^13

Pow2(k) == 2^k

Min(a, b) == IF a < b THEN a ELSE b

Max(a, b) == IF a < b THEN b ELSE a

(* Bit i (0 = least significant) of the natural held in limbs N. *)
LimbBit(N, i) ==
    IF i \div 13 + 1 > Len(N) THEN 0
    ELSE (N[i \div 13 + 1] \div Pow2(i % 13)) % 2

RECURSIVE BigNorm(_)
(* N without its most significant zero limbs. *)
BigNorm(N) ==
    IF N = <<>> THEN <<>>
    ELSE IF N[Len(N)] = 0 THEN BigNorm(SubSeq(N, 1, Len(N) - 1))
    ELSE N

Limb(N, k) == IF k >= 1 /\ k <= Len(N) THEN N[k] ELSE 0

RECURSIVE SmallBitLen(_)
(* The number of binary digits of the natural v. *)
SmallBitLen(v) == IF v = 0 THEN 0 ELSE 1 + SmallBitLen(v \div 2)

(* The number of binary digits of the natural held in limbs N. *)
BigBitLen(N) ==
    LET M == BigNorm(N)
    IN  IF M = <<>> THEN 0
        ELSE 13 * (Len(M) - 1) + SmallBitLen(M[Len(M)])

RECURSIVE AddLimbs(_, _, _, _)
AddLimbs(A, B, k, carry) ==
    IF k > Max(Len(A), Len(B))
    THEN IF carry = 0 THEN <<>> ELSE <<carry>>
    ELSE LET t == Limb(A, k) + Limb(B, k) + carry
         IN  <<t % Base>> \o AddLimbs(A, B, k + 1, t \div Base)

BigAdd(A, B) == AddLimbs(A, B, 1, 0)

RECURSIVE SubLimbs(_, _, _, _)
(* A - B from limb k on, as <<limbs, borrow out>>. *)
SubLimbs(A, B, k, borrow) ==
    IF k > Max(Len(A), Len(B)) THEN <<(<<>>), borrow>>
    ELSE LET t    == Limb(A, k) - Limb(B, k) - borrow
             rest == SubLimbs(A, B, k + 1, IF t < 0 THEN 1 ELSE 0)
         IN  <<(<<(t + Base) % Base>>) \o rest[1], rest[2]>>

BigGeq(A, B) == SubLimbs(A, B, 1, 0)[2] = 0

(* A - B, for A >= B. *)
BigSub(A, B) == SubLimbs(A, B, 1, 0)[1]

RECURSIVE CarryLimbs(_, _, _)
(* The limbs of the natural whose columns (sums of limb products) are C. *)
CarryLimbs(C, k, carry) ==
    IF k > Len(C)
    THEN IF carry = 0 THEN <<>> ELSE <<carry % Base>> \o CarryLimbs(C, k, carry \div Base)
    ELSE LET t == C[k] + carry
         IN  <<t % Base>> \o CarryLimbs(C, k + 1, t \div Base)

RECURSIVE ColumnSum(_, _, _, _)
ColumnSum(A, B, k, i) ==
    IF i > Len(A) THEN 0
    ELSE Limb(A, i) * Limb(B, k + 1 - i) + ColumnSum(A, B, k, i + 1)

(* A * B, for operands of at most five limbs. *)
BigMul(A, B) ==
    IF A = <<>> \/ B = <<>> THEN <<>>
    ELSE CarryLimbs([k \in 1..(Len(A) + Len(B) - 1) |-> ColumnSum(A, B, k, 1)], 1, 0)

(* N * 2^s. *)
BigShl(N, s) ==
    LET q == s \div 13
        r == s % 13
    IN  [k \in 1..(Len(N) + q + 1) |->
            IF k <= q THEN 0
            ELSE ((Limb(N, k - q) * Pow2(r)) % Base)
                 + ((Limb(N, k - q - 1) * Pow2(r)) \div Base)]

(* N \div 2^s. *)
BigShr(N, s) ==
    LET q == s \div 13
        r == s % 13
    IN  [k \in 1..Max(Len(N) - q, 0) |->
            (Limb(N, k + q) \div Pow2(r))
            + ((Limb(N, k + q + 1) % Pow2(r)) * Pow2(13 - r))]

(* Whether N % 2^s is not 0. *)
BigLowNonZero(N, s) ==
    \E k \in 1..Len(N) :
        /\ 13 * (k - 1) < s
        /\ (IF 13 * k <= s THEN N[k] ELSE N[k] % Pow2(s - 13 * (k - 1))) # 0

RECURSIVE DivBits(_, _, _, _, _)
(* Long division by V over the bits j..0 of one limb d of the          *)
(* dividend, with the remainder Rm and the quotient digit q so far:    *)
(* <<quotient digit, remainder>>.                                      *)
DivBits(Rm, V, d, j, q) ==
    IF j < 0 THEN <<q, Rm>>
    ELSE LET R2 == BigAdd(BigShl(Rm, 1), <<(d \div Pow2(j)) % 2>>)
             S  == SubLimbs(R2, V, 1, 0)
         IN  IF S[2] = 0
             THEN DivBits(BigNorm(S[1]), V, d, j - 1, 2 * q + 1)
             ELSE DivBits(BigNorm(R2), V, d, j - 1, 2 * q)

RECURSIVE DivLimbs(_, _, _, _, _)
(* Long division of the limbs k..1 of D by V, with the remainder Rm    *)
(* and the quotient limbs Q of the limbs above them: <<quotient,       *)
(* remainder>>. (The test of the digit has each step evaluated before  *)
(* the next one starts.)                                               *)
DivLimbs(D, V, k, Rm, Q) ==
    IF k = 0 THEN <<Q, Rm>>
    ELSE LET step == DivBits(Rm, V, D[k], 12, 0)
         IN  IF step[1] = 0
             THEN DivLimbs(D, V, k - 1, step[2], <<0>> \o Q)
             ELSE DivLimbs(D, V, k - 1, step[2], <<step[1]>> \o Q)

(* <<D \div V, D % V>> *)
BigDivMod(D, V) == DivLimbs(D, V, Len(D), <<>>, <<>>)

(* ------------------------------------------------------------------ *)
(* Sample floats.                                                      *)

PosZero == [sign |-> 0, exp |-> 0, frac |-> <<0, 0, 0, 0>>]

NegZero == [sign |-> 1, exp |-> 0, frac |-> <<0, 0, 0, 0>>]

One == [sign |-> 0, exp |-> 1023, frac |-> <<0, 0, 0, 0>>]

NegOne == [sign |-> 1, exp |-> 1023, frac |-> <<0, 0, 0, 0>>]

Half == [sign |-> 0, exp |-> 1022, frac |-> <<0, 0, 0, 0>>]

OneAndHalf == [sign |-> 0, exp |-> 1023, frac |-> <<0, 0, 0, 4096>>]

MinSubnormal == [sign |-> 0, exp |-> 0, frac |-> <<1, 0, 0, 0>>]

MaxFinite == [sign |-> 0, exp |-> 2046, frac |-> <<8191, 8191, 8191, 8191>>]

PosInf == [sign |-> 0, exp |-> 2047, frac |-> <<0, 0, 0, 0>>]

NaN == [sign |-> 0, exp |-> 2047, frac |-> <<0, 0, 0, 4096>>]

(* 1e-6, the default delta of demo_input_perturbation. *)
Millionth == [sign |-> 0, exp |-> 1003, frac |-> <<3469, 1455, 7656, 397>>]

NegInf == [sign |-> 1, exp |-> 2047, frac |-> <<0, 0, 0, 0>>]

(* The floats the bit codec and the comparators are called with. *)
BitSamples == {PosZero, NegZero, One, NegOne, Half, MinSubnormal, PosInf, NaN}

(* ------------------------------------------------------------------ *)
(* binary64 arithmetic, round to nearest, ties to even: the float      *)
(* operators *, +, -, / and abs of the interpreter.                    *)

IsNaN(x) == x.exp = 2047 /\ x.frac # <<0, 0, 0, 0>>

IsInf(x) == x.exp = 2047 /\ x.frac = <<0, 0, 0, 0>>

IsZero(x) == x.exp = 0 /\ x.frac = <<0, 0, 0, 0>>

Zero(s) == [sign |-> s, exp |-> 0, frac |-> <<0, 0, 0, 0>>]

Inf(s) == [sign |-> s, exp |-> 2047, frac |-> <<0, 0, 0, 0>>]

(* A finite x is (-1)^sign * Sig(x) * 2^Exp2(x). *)
Sig(x) == x.frac \o <<IF x.exp > 0 THEN 1 ELSE 0>>

Exp2(x) == (IF x.exp = 0 THEN 1 ELSE x.exp) - 1075

Xor(a, b) == (a + b) % 2

(* The binary64 nearest to (-1)^s * (N + f) * 2^E, where 0 <= f < 1    *)
(* and sticky says whether f > 0 (N is at least 2^54 when it is).      *)
RoundPack(s, N0, E, sticky) ==
    LET N == BigNorm(N0)
        L == BigBitLen(N)
    IN  IF L = 0 THEN Zero(s)
        ELSE
        LET ex    == E + L - 1
            q     == IF ex < -1022 THEN -1074 ELSE ex - 52
            shift == q - E
            M0    == IF shift <= 0 THEN BigShl(N, 0 - shift) ELSE BigShr(N, shift)
            guard == IF shift <= 0 THEN 0 ELSE LimbBit(N, shift - 1)
            st    == sticky \/ (shift > 1 /\ BigLowNonZero(N, shift - 1))
            up    == guard = 1 /\ (st \/ LimbBit(M0, 0) = 1)
            M1    == IF up THEN BigAdd(M0, <<1>>) ELSE M0
            carry == Limb(M1, 5) = 2
            q2    == IF carry THEN q + 1 ELSE q
            top   == IF carry THEN 1 ELSE Limb(M1, 5)
            e     == IF top = 0 THEN 0 ELSE q2 + 52 + 1023
        IN  IF e >= 2047 THEN Inf(s)
            ELSE [sign |-> s, exp |-> e,
                  frac |-> [k \in 1..4 |-> IF carry THEN 0 ELSE Limb(M1, k)]]

(* x * y *)
Mul(x, y) ==
    LET s == Xor(x.sign, y.sign)
    IN  IF IsNaN(x) \/ IsNaN(y) THEN NaN
        ELSE IF IsInf(x) \/ IsInf(y)
             THEN IF IsZero(x) \/ IsZero(y) THEN NaN ELSE Inf(s)
        ELSE IF IsZero(x) \/ IsZero(y) THEN Zero(s)
        ELSE RoundPack(s, BigMul(Sig(x), Sig(y)), Exp2(x) + Exp2(y), FALSE)

(* x + y *)
Add(x, y) ==
    IF IsNaN(x) \/ IsNaN(y) THEN NaN
    ELSE IF IsInf(x)
         THEN IF IsInf(y) /\ x.sign # y.sign THEN NaN ELSE x
    ELSE IF IsInf(y) THEN y
    ELSE IF IsZero(x) /\ IsZero(y)
         THEN Zero(IF x.sign = y.sign THEN x.sign ELSE 0)
    ELSE LET E == Min(Exp2(x), Exp2(y))
             A == BigShl(Sig(x), Exp2(x) - E)
             B == BigShl(Sig(y), Exp2(y) - E)
         IN  IF x.sign = y.sign THEN RoundPack(x.sign, BigAdd(A, B), E, FALSE)
             ELSE IF BigGeq(A, B)
                  THEN IF BigGeq(B, A) THEN Zero(0)
                       ELSE RoundPack(x.sign, BigSub(A, B), E, FALSE)
             ELSE RoundPack(y.sign, BigSub(B, A), E, FALSE)

Neg(x) == [x EXCEPT !.sign = 1 - x.sign]

(* x - y *)
Sub(x, y) == IF IsNaN(y) THEN NaN ELSE Add(x, Neg(y))

(* abs(x) *)
Abs(x) == [x EXCEPT !.sign = 0]

(* x / y for y other than zero (a zero y raises ZeroDivisionError). *)
Div(x, y) ==
    LET s == Xor(x.sign, y.sign)
    IN  IF IsNaN(x) \/ IsNaN(y) THEN NaN
        ELSE IF IsInf(x) THEN IF IsInf(y) THEN NaN ELSE Inf(s)
        ELSE IF IsInf(y) \/ IsZero(x) THEN Zero(s)
        ELSE LET up == 53 - BigBitLen(Sig(x))
                 D  == BigShl(Sig(x), up + 65)
                 QR == BigDivMod(D, BigNorm(Sig(y)))
             IN  RoundPack(s, QR[1], Exp2(x) - up - 65 - Exp2(y), QR[2] # <<>>)

(* The floats empirical_stability_law is called with. *)
LawSamples ==
    {PosZero, NegZero, NaN, PosInf, NegInf}
    \cup {[sign |-> sg, exp |-> x.exp, frac |-> x.frac] :
             sg \in {0, 1},
             x \in {One, Half, OneAndHalf, Millionth, MinSubnormal, MaxFinite}}

(* ------------------------------------------------------------------ *)
(* float_to_bin64                                                      *)

(* Bit i of the binary64 pattern of x: 63 the sign, 62..52 the         *)
(* exponent, 51..0 the fraction.                                       *)
DoubleBit(x, i) ==
    IF i = 63 THEN x.sign
    ELSE IF i >= 52 THEN (x.exp \div Pow2(i - 52)) % 2
    ELSE LimbBit(x.frac, i)

(* Byte k (0 = least significant) of the binary64 pattern of x. *)
PatternByte(x, k) ==
    LET bit(b) == DoubleBit(x, 8 * k + b)
    IN  bit(0) + 2 * bit(1) + 4 * bit(2) + 8 * bit(3)
        + 16 * bit(4) + 32 * bit(5) + 64 * bit(6) + 128 * bit(7)

(* Mutant of pack_be_d: the little-endian format "<d". *)
pack_le_d(x) == [j \in 1..8 |-> PatternByte(x, j - 1)]

(* struct.pack(">d", x): the eight bytes of x, most significant first. *)
pack_be_d(x) == [j \in 1..8 |-> PatternByte(x, 8 - j)]

(* struct.unpack(">Q", bytes): the unsigned integer whose big-endian   *)
(* bytes these are, kept as its base-256 digits, most significant      *)
(* first, with the leading zero digits of the number dropped.          *)
RECURSIVE StripLeadingZeros(_)
StripLeadingZeros(ds) ==
    IF ds = <<>> THEN <<>>
    ELSE IF ds[1] = 0 THEN StripLeadingZeros(Tail(ds))
    ELSE ds

unpack_be_Q(bytes) == StripLeadingZeros(bytes)

(* The binary digits of one base-256 digit, most significant first. *)
ByteDigits(b) ==
    [k \in 1..8 |-> IF (b \div Pow2(8 - k)) % 2 = 1 THEN "1" ELSE "0"]

RECURSIVE StripLeadingChar(_, _)
StripLeadingChar(s, c) ==
    IF s = <<>> THEN <<>>
    ELSE IF s[1] = c THEN StripLeadingChar(Tail(s), c)
    ELSE s

RECURSIVE ConcatDigits(_)
ConcatDigits(d) ==
    IF d = <<>> THEN <<>> ELSE ByteDigits(d[1]) \o ConcatDigits(Tail(d))

(* f"{d:0<width>b}": the binary numeral of d, zero-padded on the left  *)
(* to at least width characters; the numeral of 0 is "0".              *)
FormatBin(d, width) ==
    LET numeral == StripLeadingChar(ConcatDigits(d), "0")
        digits  == IF numeral = <<>> THEN <<"0">> ELSE numeral
        pad     == Max(width - Len(digits), 0)
    IN  [k \in 1..pad |-> "0"] \o digits

BitWidth == 64

float_to_bin64(x) == FormatBin(unpack_be_Q(pack_be_d(x)), BitWidth)

(* ------------------------------------------------------------------ *)
(* common_bit_prefix                                                   *)

(* The number of tuples zip yields over the strings of bins: none for   *)
(* no string at all, else the length of the shortest string.           *)
RECURSIVE ZipLen(_)
ZipLen(bins) ==
    IF bins = <<>> THEN 0
    ELSE IF Len(bins) = 1 THEN Len(bins[1])
    ELSE Min(Len(bins[1]), ZipLen(Tail(bins)))

(* Mutant of PrefixLoop: the loop without its break. *)
RECURSIVE PrefixLoopNoBreak(_, _, _)
PrefixLoopNoBreak(bins, k, prefix_len) ==
    IF k > ZipLen(bins) THEN prefix_len
    ELSE IF \A j \in 1..Len(bins) : bins[j][k] = bins[1][k]
         THEN PrefixLoopNoBreak(bins, k + 1, prefix_len + 1)
         ELSE PrefixLoopNoBreak(bins, k + 1, prefix_len)

(* The loop over the zipped bins from tuple k on, prefix_len so far.    *)
RECURSIVE PrefixLoop(_, _, _)
PrefixLoop(bins, k, prefix_len) ==
    IF k > ZipLen(bins) THEN prefix_len
    ELSE IF \A j \in 1..Len(bins) : bins[j][k] = bins[1][k]
         THEN PrefixLoop(bins, k + 1, prefix_len + 1)
         ELSE prefix_len

common_bit_prefix(xs) ==
    PrefixLoop([j \in 1..Len(xs) |-> float_to_bin64(xs[j])], 1, 0)

(* ------------------------------------------------------------------ *)
(* hamming_distance                                                    *)

RECURSIVE SumDiffer(_, _, _)
SumDiffer(bx, by, k) ==
    IF k > Min(Len(bx), Len(by)) THEN 0
    ELSE (IF bx[k] # by[k] THEN 1 ELSE 0) + SumDiffer(bx, by, k + 1)

(* Mutant of hamming_distance: b1 == b2 in place of b1 != b2. *)
hamming_distance_eq(x, y) ==
    BitWidth - SumDiffer(float_to_bin64(x), float_to_bin64(y), 1)

hamming_distance(x, y) ==
    SumDiffer(float_to_bin64(x), float_to_bin64(y), 1)

(* ------------------------------------------------------------------ *)
(* empirical_stability_law                                             *)

(* math.log2(x). Of a finite result only its floor is modelled: the    *)
(* position of the leading binary digit of x. (For an x within a few   *)
(* hundred units in the last place below a power of two the library    *)
(* may round the logarithm up to the next integer; no sample is such.) *)
math_log2(x) ==
    IF IsNaN(x) THEN Returned([class |-> "nan", floor |-> 0])
    ELSE IF x.sign = 1 \/ IsZero(x)
         THEN Raised("ValueError: math domain error")
    ELSE IF IsInf(x) THEN Returned([class |-> "inf", floor |-> 0])
    ELSE Returned([class |-> "finite",
                   floor |-> BigBitLen(Sig(x)) - 1 + Exp2(x)])

(* math.floor(v) *)
math_floor(v) ==
    IF v.class = "nan"
    THEN Raised("ValueError: cannot convert float NaN to integer")
    ELSE IF v.class = "inf"
         THEN Raised("OverflowError: cannot convert float infinity to integer")
    ELSE Returned(v.floor)

(* Mutant of empirical_stability_law: the magnitude of epsilon is used. *)
empirical_stability_law_abs(epsilon) ==
    IF IsZero(epsilon) THEN Returned(64)
    ELSE LET lg == math_log2(Div(One, Abs(epsilon)))
         IN  IF lg.kind = "raise" THEN lg
             ELSE LET fl == math_floor(lg.val)
                  IN  IF fl.kind = "raise" THEN fl
                      ELSE Returned(64 - fl.val)

empirical_stability_law(epsilon) ==
    IF IsZero(epsilon) THEN Returned(64)
    ELSE LET lg == math_log2(Div(One, epsilon))
         IN  IF lg.kind = "raise" THEN lg
             ELSE LET fl == math_floor(lg.val)
                  IN  IF fl.kind = "raise" THEN fl
                      ELSE Returned(64 - fl.val)

(* ------------------------------------------------------------------ *)
(* R                                                                   *)

(* math.sin(math.pi / p) and math.cos(math.pi / (2 * p)) in binary64,  *)
(* for the first primes p.                                             *)
Trig(p) ==
    CASE p = 2 ->
        [sin |-> [sign |-> 0, exp |-> 1023, frac |-> <<0, 0, 0, 0>>],
         cos |-> [sign |-> 0, exp |-> 1022, frac |-> <<7117, 5113, 1945, 3393>>]]
    [] p = 3 ->
        [sin |-> [sign |-> 0, exp |-> 1022, frac |-> <<3242, 706, 7866, 5996>>],
         cos |-> [sign |-> 0, exp |-> 1022, frac |-> <<3243, 706, 7866, 5996>>]]
    [] p = 5 ->
        [sin |-> [sign |-> 0, exp |-> 1022, frac |-> <<6750, 938, 2241, 1438>>],
         cos |-> [sign |-> 0, exp |-> 1022, frac |-> <<5375, 6690, 900, 7390>>]]
    [] p = 7 ->
        [sin |-> [sign |-> 0, exp |-> 1021, frac |-> <<3009, 2957, 4115, 6025>>],
         cos |-> [sign |-> 0, exp |-> 1022, frac |-> <<2409, 2759, 1793, 7781>>]]
    [] p = 11 ->
        [sin |-> [sign |-> 0, exp |-> 1021, frac |-> <<3519, 2996, 6655, 1039>>],
         cos |-> [sign |-> 0, exp |-> 1022, frac |-> <<751, 450, 1921, 8025>>]]
    [] p = 13 ->
        [sin |-> [sign |-> 0, exp |-> 1020, frac |-> <<3518, 7716, 6482, 7491>>],
         cos |-> [sign |-> 0, exp |-> 1022, frac |-> <<1897, 5299, 4441, 8072>>]]
    [] p = 17 ->
        [sin |-> [sign |-> 0, exp |-> 1020, frac |-> <<1716, 1718, 1707, 3850>>],
         cos |-> [sign |-> 0, exp |-> 1022, frac |-> <<2850, 6834, 890, 8122>>]]
    [] p = 19 ->
        [sin |-> [sign |-> 0, exp |-> 1020, frac |-> <<6341, 6506, 7135, 2594>>],
         cos |-> [sign |-> 0, exp |-> 1022, frac |-> <<682, 3370, 330, 8136>>]]

(* Mutant of R: the input z scales the term. *)
R_scaled_by_z(z, p) ==
    Mul(z, Mul(Mul(Trig(p).sin, Trig(p).cos), Trig(p).sin))

(* sin(pi/p) * cos(pi/(2p)) * sin(pi/p), multiplied left to right. *)
R(z, p) == Mul(Mul(Trig(p).sin, Trig(p).cos), Trig(p).sin)

(* ------------------------------------------------------------------ *)
(* Cn                                                                  *)

IsPrime(m) == m >= 2 /\ \A d \in 2..(m - 1) : m % d # 0

RECURSIVE primerange(_, _)
(* list(primerange(a, b)): the primes in [a, b), ascending. *)
primerange(a, b) ==
    IF a >= b THEN <<>>
    ELSE IF IsPrime(a) THEN <<a>> \o primerange(a + 1, b)
    ELSE primerange(a + 1, b)

(* The width of the range the primes are drawn from (10000 in the      *)
(* program, 1229 primes; here small, so that a call can outrun them).  *)
PoolSpan == 6

(* Mutant of CnRange: the loop stops where the primes end. *)
CnRangeClamped(n, ps) == Min(n, Len(ps))

(* The number of iterations of "for i in range(n)". *)
CnRange(n, ps) == Max(n, 0)

(* Mutant of CnBody: = in place of *=. *)
CnBodyAssign(z, ps, i, prod) == R(z, ps[i + 1])

(* The value of product after "product *= R(z, primes[i])" (i from 0). *)
CnBody(z, ps, i, prod) == Mul(prod, R(z, ps[i + 1]))

(* Entering Cn(z, n): the primes are generated and product is 1.0. *)
CnEnter(z, n) ==
    /\ cpc' = "loop"
    /\ cz' = z
    /\ cn' = n
    /\ primes' = primerange(2, 2 + PoolSpan)
    /\ product' = One
    /\ ci' = 0
    /\ cret' = NoRet

(* One iteration of the loop. *)
CnIterate ==
    /\ cpc = "loop"
    /\ ci < CnRange(cn, primes)
    /\ ci < Len(primes)
    /\ product' = CnBody(cz, primes, ci, product)
    /\ ci' = ci + 1
    /\ UNCHANGED <<cpc, cz, cn, primes, cret, callVars, demoVars, trace>>

(* primes[i] with i past the end of the list. *)
CnIndexError ==
    /\ cpc = "loop"
    /\ ci < CnRange(cn, primes)
    /\ ci >= Len(primes)
    /\ cpc' = "raised"
    /\ cret' = Raised("IndexError: list index out of range")
    /\ ret' = IF fn = "Cn" THEN cret' ELSE ret
    /\ UNCHANGED <<cz, cn, primes, product, ci, fn, args, demoVars, trace>>

(* return product *)
CnReturn ==
    /\ cpc = "loop"
    /\ ci >= CnRange(cn, primes)
    /\ cpc' = "done"
    /\ cret' = Returned(product)
    /\ ret' = IF fn = "Cn" THEN cret' ELSE ret
    /\ UNCHANGED <<cz, cn, primes, product, ci, fn, args, demoVars, trace>>

(* ------------------------------------------------------------------ *)
(* The demonstration drivers.                                          *)

Eval(f) == [kind |-> "eval", what |-> f]

Report(w, line) == [kind |-> "report", what |-> w, line |-> line]

(* demo_sequence_extension, line 51: the next n of the range, if any,  *)
(* and line 52: the call of Cn(z, n).                                  *)
SeqCallCn ==
    /\ fn = "demo_sequence_extension"
    /\ dpc = "L51"
    /\ dn <= args[3]
    /\ CnEnter(args[1], dn)
    /\ dpc' = "L52"
    /\ trace' = Append(trace, Eval("Cn"))
    /\ UNCHANGED <<callVars, dn, dk, results, ns, vals, base, perturbed,
                   prefix, hamming, diff>>

(* Lines 52 to 55: val is bound and appended to the three lists. *)
SeqAppend ==
    /\ fn = "demo_sequence_extension"
    /\ dpc = "L52"
    /\ cpc = "done"
    /\ results' = Append(results, cret.val)
    /\ ns' = Append(ns, dn)
    /\ vals' = Append(vals, cret.val)
    /\ dn' = dn + 1
    /\ dpc' = "L51"
    /\ cpc' = "idle"
    /\ UNCHANGED <<callVars, cz, cn, primes, product, ci, cret, dk, base,
                   perturbed, prefix, hamming, diff, trace>>

(* Line 56, the range being exhausted. *)
SeqPrefix ==
    /\ fn = "demo_sequence_extension"
    /\ dpc = "L51"
    /\ dn > args[3]
    /\ prefix' = common_bit_prefix(results)
    /\ trace' = Append(trace, Eval("common_bit_prefix"))
    /\ dpc' = "L57"
    /\ UNCHANGED <<callVars, cnVars, dn, dk, results, ns, vals, base,
                   perturbed, hamming, diff>>

(* Line 57. *)
SeqPrintPrefix ==
    /\ fn = "demo_sequence_extension"
    /\ dpc = "L57"
    /\ trace' = Append(trace, Report("print", 57))
    /\ dk' = 1
    /\ dpc' = "L58"
    /\ UNCHANGED <<callVars, cnVars, dn, results, ns, vals, base, perturbed,
                   prefix, hamming, diff>>

(* Lines 58 and 59: the line of one result is formatted, which         *)
(* evaluates float_to_bin64(val), and printed.                         *)
SeqPrintLine ==
    /\ fn = "demo_sequence_extension"
    /\ dpc = "L58"
    /\ dk <= Len(results)
    /\ Len(float_to_bin64(results[dk])) = BitWidth
    /\ trace' = trace \o <<Eval("float_to_bin64"), Report("print", 59)>>
    /\ dk' = dk + 1
    /\ UNCHANGED <<callVars, cnVars, dpc, dn, results, ns, vals, base,
                   perturbed, prefix, hamming, diff>>

(* Lines 61 to 69: the plot of vals against ns is drawn and shown. *)
SeqPlot ==
    /\ fn = "demo_sequence_extension"
    /\ dpc = "L58"
    /\ dk > Len(results)
    /\ trace' = Append(trace, Report("plot", 69))
    /\ dpc' = "done"
    /\ ret' = Returned("None")
    /\ UNCHANGED <<fn, args, cnVars, dn, dk, results, ns, vals, base,
                   perturbed, prefix, hamming, diff>>

(* demo_input_perturbation, line 73: the call of Cn(z, n). *)
PertCallBase ==
    /\ fn = "demo_input_perturbation"
    /\ dpc = "L73"
    /\ cpc = "idle"
    /\ CnEnter(args[1], args[2])
    /\ trace' = Append(trace, Eval("Cn"))
    /\ UNCHANGED <<callVars, demoVars>>

(* Line 73: base is bound; line 74: the call of Cn(z + delta, n). *)
PertCallPerturbed ==
    /\ fn = "demo_input_perturbation"
    /\ dpc = "L73"
    /\ cpc = "done"
    /\ base' = cret.val
    /\ CnEnter(Add(args[1], args[3]), args[2])
    /\ dpc' = "L74"
    /\ trace' = Append(trace, Eval("Cn"))
    /\ UNCHANGED <<callVars, dn, dk, results, ns, vals, perturbed, prefix,
                   hamming, diff>>

(* Line 74: perturbed is bound; line 75. *)
PertPrefix ==
    /\ fn = "demo_input_perturbation"
    /\ dpc = "L74"
    /\ cpc = "done"
    /\ perturbed' = cret.val
    /\ prefix' = common_bit_prefix(<<base, cret.val>>)
    /\ trace' = Append(trace, Eval("common_bit_prefix"))
    /\ dpc' = "L76"
    /\ cpc' = "idle"
    /\ UNCHANGED <<callVars, cz, cn, primes, product, ci, cret, dn, dk,
                   results, ns, vals, base, hamming, diff>>

(* Mutant of PertHamming: the first print comes before it. *)
PertHammingAfterPrint ==
    /\ fn = "demo_input_perturbation"
    /\ dpc = "L76"
    /\ hamming' = hamming_distance(base, perturbed)
    /\ trace' = trace \o <<Report("print", 78), Eval("hamming_distance")>>
    /\ dpc' = "L77"
    /\ UNCHANGED <<callVars, cnVars, dn, dk, results, ns, vals, base,
                   perturbed, prefix, diff>>

(* Line 76. *)
PertHamming ==
    /\ fn = "demo_input_perturbation"
    /\ dpc = "L76"
    /\ hamming' = hamming_distance(base, perturbed)
    /\ trace' = Append(trace, Eval("hamming_distance"))
    /\ dpc' = "L77"
    /\ UNCHANGED <<callVars, cnVars, dn, dk, results, ns, vals, base,
                   perturbed, prefix, diff>>

(* Line 77. *)
PertDiff ==
    /\ fn = "demo_input_perturbation"
    /\ dpc = "L77"
    /\ diff' = Abs(Sub(base, perturbed))
    /\ trace' = Append(trace, Eval("abs"))
    /\ dpc' = "L78"
    /\ dk' = 78
    /\ UNCHANGED <<callVars, cnVars, dn, results, ns, vals, base,
                   perturbed, prefix, hamming>>

(* Lines 78 to 81, one print each. *)
PertPrint ==
    /\ fn = "demo_input_perturbation"
    /\ dpc = "L78"
    /\ dk <= 81
    /\ trace' = Append(trace, Report("print", dk))
    /\ dk' = dk + 1
    /\ UNCHANGED <<callVars, cnVars, dpc, dn, results, ns, vals, base,
                   perturbed, prefix, hamming, diff>>

(* Line 82: the line is formatted, which evaluates                     *)
(* empirical_stability_law(diff), and printed, unless that call fails. *)
PertPrintLaw ==
    /\ fn = "demo_input_perturbation"
    /\ dpc = "L78"
    /\ dk = 82
    /\ LET law == empirical_stability_law(diff)
       IN  IF law.kind = "raise"
           THEN /\ trace' = Append(trace, Eval("empirical_stability_law"))
                /\ ret' = law
           ELSE /\ trace' = trace \o <<Eval("empirical_stability_law"),
                                        Report("print", 82)>>
                /\ ret' = Returned("None")
    /\ dpc' = "done"
    /\ UNCHANGED <<fn, args, cnVars, dn, dk, results, ns, vals, base,
                   perturbed, prefix, hamming, diff>>

(* An exception of Cn leaves the demo that called it. *)
DemoRaise ==
    /\ fn \in {"demo_sequence_extension", "demo_input_perturbation"}
    /\ dpc \in {"L52", "L73", "L74"}
    /\ cpc = "raised"
    /\ ret' = cret
    /\ dpc' = "done"
    /\ UNCHANGED <<fn, args, cnVars, dn, dk, results, ns, vals, base,
                   perturbed, prefix, hamming, diff, trace>>

(* ------------------------------------------------------------------ *)
(* Runs of Cn and of the demos.                                        *)

MaxN == 5

ZSamples == {Half, One}

DeltaSamples == {Millionth, PosZero, Half}

(* Nothing of Cn or of a demo is under way. *)
Idle ==
    /\ cpc = "idle"
    /\ cz = PosZero
    /\ cn = 0
    /\ primes = <<>>
    /\ product = One
    /\ ci = 0
    /\ cret = NoRet
    /\ dpc = "idle"
    /\ dn = 0
    /\ dk = 0
    /\ results = <<>>
    /\ ns = <<>>
    /\ vals = <<>>
    /\ base = PosZero
    /\ perturbed = PosZero
    /\ prefix = 0
    /\ hamming = 0
    /\ diff = PosZero
    /\ trace = <<>>

(* The arguments are drawn first: (z, n) of Cn, (z, n_start, n_end) of *)
(* demo_sequence_extension, (z, n, delta) of demo_input_perturbation.  *)
InitRuns ==
    /\ fn = "none"
    /\ args \in ({"Cn"} \X ZSamples \X (0..MaxN))
           \cup ({"demo_sequence_extension"} \X ZSamples \X (0..MaxN) \X (0..MaxN))
           \cup ({"demo_input_perturbation"} \X ZSamples \X (0..MaxN) \X DeltaSamples)
    /\ ret = NoRet
    /\ Idle

CallCn ==
    /\ fn = "none"
    /\ args[1] = "Cn"
    /\ fn' = "Cn"
    /\ args' = Tail(args)
    /\ CnEnter(args[2], args[3])
    /\ UNCHANGED <<ret, demoVars, trace>>

CallDemoSequenceExtension ==
    /\ fn = "none"
    /\ args[1] = "demo_sequence_extension"
    /\ fn' = "demo_sequence_extension"
    /\ args' = Tail(args)
    /\ dpc' = "L51"
    /\ dn' = args[3]
    /\ UNCHANGED <<ret, cnVars, dk, results, ns, vals, base, perturbed,
                   prefix, hamming, diff, trace>>

CallDemoInputPerturbation ==
    /\ fn = "none"
    /\ args[1] = "demo_input_perturbation"
    /\ fn' = "demo_input_perturbation"
    /\ args' = Tail(args)
    /\ dpc' = "L73"
    /\ UNCHANGED <<ret, cnVars, dn, dk, results, ns, vals, base, perturbed,
                   prefix, hamming, diff, trace>>

NextRuns ==
    \/ CallCn
    \/ CallDemoSequenceExtension
    \/ CallDemoInputPerturbation
    \/ CnIterate
    \/ CnIndexError
    \/ CnReturn
    \/ SeqCallCn
    \/ SeqAppend
    \/ SeqPrefix
    \/ SeqPrintPrefix
    \/ SeqPrintLine
    \/ SeqPlot
    \/ PertCallBase
    \/ PertCallPerturbed
    \/ PertPrefix
    \/ PertHamming
    \/ PertDiff
    \/ PertPrint
    \/ PertPrintLaw
    \/ DemoRaise

SpecRuns == InitRuns /\ [][NextRuns]_vars

(* ------------------------------------------------------------------ *)
(* Calls of the pure functions.                                        *)

MaxLen == 3

SeqsUpTo(S, n) == UNION {[1..k -> S] : k \in 0..n}

(* The arguments are drawn first; one of the functions is then applied *)
(* to them.                                                            *)
InitCalls ==
    /\ fn = "none"
    /\ args \in SeqsUpTo(BitSamples, MaxLen) \cup {<<e>> : e \in LawSamples}
    /\ ret = NoRet
    /\ Idle

CallFloatToBin64 ==
    /\ fn = "none"
    /\ Len(args) = 1
    /\ fn' = "float_to_bin64"
    /\ ret' = Returned(float_to_bin64(args[1]))
    /\ UNCHANGED <<args, cnVars, demoVars, trace>>

CallCommonBitPrefix ==
    /\ fn = "none"
    /\ fn' = "common_bit_prefix"
    /\ ret' = Returned(common_bit_prefix(args))
    /\ UNCHANGED <<args, cnVars, demoVars, trace>>

CallHammingDistance ==
    /\ fn = "none"
    /\ Len(args) = 2
    /\ fn' = "hamming_distance"
    /\ ret' = Returned(hamming_distance(args[1], args[2]))
    /\ UNCHANGED <<args, cnVars, demoVars, trace>>

CallEmpiricalStabilityLaw ==
    /\ fn = "none"
    /\ Len(args) = 1
    /\ fn' = "empirical_stability_law"
    /\ ret' = empirical_stability_law(args[1])
    /\ UNCHANGED <<args, cnVars, demoVars, trace>>

NextCalls ==
    \/ CallFloatToBin64
    \/ CallCommonBitPrefix
    \/ CallHammingDistance
    \/ CallEmpiricalStabilityLaw

SpecCalls == InitCalls /\ [][NextCalls]_vars

(* ------------------------------------------------------------------ *)
(* Claims about the pure functions (SpecCalls).                        *)

(* C1: hamming_distance(x, y) lies in 0..64, equals                    *)
(* hamming_distance(y, x), and hamming_distance(x, x) is 0.            *)
C1_HammingBoundsSymmetry ==
    fn = "hamming_distance" =>
        /\ ret.kind = "return"
        /\ ret.val \in 0..64
        /\ ret.val = hamming_distance(args[2], args[1])
        /\ (args[1] = args[2] => ret.val = 0)

C1_Witness ==
    /\ fn = "hamming_distance"
    /\ args[1] # args[2]
    /\ ret.val > 1

(* All sub-sequences of s: the elements at any set of positions, in order. *)
RECURSIVE SubSeqs(_)
SubSeqs(s) ==
    IF s = <<>> THEN {<<>>}
    ELSE LET rest == SubSeqs(Tail(s))
         IN  rest \cup {<<s[1]>> \o t : t \in rest}

(* C2: for every sequence S and every sub-sequence T of S,             *)
(* common_bit_prefix(S) <= common_bit_prefix(T).                       *)
C2_PrefixMonotone ==
    fn = "common_bit_prefix" =>
        \A T \in SubSeqs(args) : ret.val <= common_bit_prefix(T)

(* C3: common_bit_prefix of an empty sequence fails and returns no     *)
(* prefix length.                                                      *)
C3_EmptyInputFails ==
    (fn = "common_bit_prefix" /\ args = <<>>) => ret.kind = "raise"

(* C8: empirical_stability_law fails with a domain error for every     *)
(* negative epsilon and returns exactly 64 for epsilon equal to 0.     *)
C8_LawDomain ==
    fn = "empirical_stability_law" =>
        /\ (args[1].sign = 1 /\ ~IsNaN(args[1]) /\ ~IsZero(args[1])) =>
               ret = Raised("ValueError: math domain error")
        /\ IsZero(args[1]) => ret = Returned(64)

C8_Witness ==
    /\ fn = "empirical_stability_law"
    /\ args[1] = NegOne
    /\ ret.kind = "raise"

(* C9: the encodings of -0.0 and 0.0 differ in the first character     *)
(* (the sign bit) and in no other, and hamming_distance(-0.0, 0.0) is 1. *)
C9_SignedZeros ==
    /\ (fn = "float_to_bin64" /\ args[1] = NegZero) =>
            /\ Len(ret.val) = 64
            /\ Len(float_to_bin64(PosZero)) = 64
            /\ \A k \in 1..64 :
                   (ret.val[k] # float_to_bin64(PosZero)[k]) <=> (k = 1)
    /\ (fn = "hamming_distance" /\ args = <<NegZero, PosZero>>) =>
            (ret.kind = "return" /\ ret.val = 1)

C9_Witness ==
    /\ fn = "hamming_distance"
    /\ args = <<NegZero, PosZero>>
    /\ ret.val = 1

(* C10: common_bit_prefix([x, y]) is 64 exactly when                   *)
(* hamming_distance(x, y) is 0; the two add up to at most 64, no bit   *)
(* inside the common prefix differing; common_bit_prefix([x]) is 64.   *)
C10_PrefixVersusHamming ==
    fn = "common_bit_prefix" =>
        /\ Len(args) = 2 =>
              /\ (ret.val = 64) <=> (hamming_distance(args[1], args[2]) = 0)
              /\ ret.val + hamming_distance(args[1], args[2]) <= 64
              /\ \A k \in 1..ret.val :
                     float_to_bin64(args[1])[k] = float_to_bin64(args[2])[k]
        /\ Len(args) = 1 => ret.val = 64

C10_Witness ==
    /\ fn = "common_bit_prefix"
    /\ Len(args) = 2
    /\ ret.val > 0
    /\ ret.val < 64
    /\ hamming_distance(args[1], args[2]) > 1

(* ------------------------------------------------------------------ *)
(* Claims about Cn and the demonstration drivers (SpecRuns).           *)

NoReport(t) == \A j \in 1..Len(t) : t[j].kind # "report"

(* C4: Cn(z, n) with n larger than the number of primes of the pool    *)
(* never returns a value: it fails with an error, and nothing has been *)
(* reported when it does.                                              *)
C4_NoTruncatedProduct ==
    (cpc # "idle" /\ cn > Len(primes)) =>
        /\ cpc # "done"
        /\ cret.kind # "return"
        /\ ret.kind # "return"
        /\ NoReport(trace)
        /\ cpc = "raised" =>
              /\ cret = Raised("IndexError: list index out of range")
              /\ fn = "Cn" => ret = cret

C4_Witness ==
    /\ fn = "Cn"
    /\ cpc = "raised"
    /\ cn > Len(primes)
    /\ ret.kind = "raise"

(* The j-th smallest prime. *)
NthPrime(j) ==
    CHOOSE p \in 2..(2 + 2 * PoolSpan) :
        /\ \A d \in 2..(p - 1) : p % d # 0
        /\ Cardinality({q \in 2..(p - 1) : \A d \in 2..(q - 1) : q % d # 0}) = j - 1

RECURSIVE CascadeRef(_, _)
(* 1.0 * R(z, p_1) * ... * R(z, p_j), multiplied left to right. *)
CascadeRef(z, j) ==
    IF j = 0 THEN One ELSE Mul(CascadeRef(z, j - 1), R(z, NthPrime(j)))

(* C5: after i iterations product is 1.0 multiplied, left to right, by *)
(* R(z, p) for the first i primes in ascending order, each once; so    *)
(* for n >= 1 within the pool Cn(z, n) is that product for the first n *)
(* primes, and Cn(z, 1) is R(z, 2).                                    *)
C5_CascadeProduct ==
    /\ cpc \in {"loop", "done"} => product = CascadeRef(cz, ci)
    /\ (cpc = "done" /\ cn >= 1) =>
          /\ ci = cn
          /\ cret = Returned(CascadeRef(cz, cn))
          /\ cn = 1 => cret.val = R(cz, 2)

C5_Witness ==
    /\ fn = "Cn"
    /\ cpc = "done"
    /\ cn = 3
    /\ ret = Returned(Mul(Mul(R(cz, 2), R(cz, 3)), R(cz, 5)))

(* C6, as stated: in a demo no numeric function is evaluated after the *)
(* first report of the run.                                            *)
C6_ReportsAfterAllNumeric ==
    \A i \in 1..Len(trace) : \A j \in (i + 1)..Len(trace) :
        trace[i].kind = "report" => trace[j].kind # "eval"

(* C6, amended: the cascade values, the common prefix, the Hamming     *)
(* distance and the difference are computed before the first report;   *)
(* after it the only numeric functions evaluated are float_to_bin64,   *)
(* once before each line demo_sequence_extension prints for a result,  *)
(* and empirical_stability_law, once before the last print of          *)
(* demo_input_perturbation.                                            *)
C6_OnlyFormattingAfterReport ==
    \A i \in 1..Len(trace) : \A j \in (i + 1)..Len(trace) :
        (trace[i].kind = "report" /\ trace[j].kind = "eval") =>
            \/ /\ fn = "demo_sequence_extension"
               /\ trace[j].what = "float_to_bin64"
               /\ j < Len(trace)
               /\ trace[j + 1] = Report("print", 59)
            \/ /\ fn = "demo_input_perturbation"
               /\ trace[j].what = "empirical_stability_law"
               /\ j >= Len(trace) - 1
               /\ dpc = "done"

C6_Witness ==
    /\ fn = "demo_input_perturbation"
    /\ dpc = "done"
    /\ Len(trace) > 2
    /\ trace[Len(trace) - 2] = Report("print", 81)
    /\ trace[Len(trace) - 1] = Eval("empirical_stability_law")
    /\ trace[Len(trace)] = Report("print", 82)

(* C7: the cascade value does not depend on z: in                      *)
(* demo_input_perturbation base and perturbed are bit-identical, their *)
(* common bit prefix is 64 and their Hamming distance is 0, for every  *)
(* z, delta and n.                                                     *)
C7_IndependentOfZ ==
    (fn = "demo_input_perturbation" /\ ret.kind # "raise") =>
        /\ dpc \in {"L76", "L77", "L78", "done"} =>
              /\ float_to_bin64(base) = float_to_bin64(perturbed)
              /\ prefix = 64
        /\ dpc \in {"L77", "L78", "done"} => hamming = 0

C7_Witness ==
    /\ fn = "demo_input_perturbation"
    /\ dpc = "L78"
    /\ args[3] = Millionth
    /\ args[2] >= 2
    /\ cz # args[1]
    /\ prefix = 64
    /\ hamming = 0

=============================================================================
